---- MODULE Spec2Model ----
(***************************************************************************)
(* A model of the quota-aware channel harvesting engine of the YouTube     *)
(* scraper: YouTubeScraper (src/youtube_scraper.py), the two multi-channel *)
(* drivers (src/app.py, src/api.py) and the in-memory part of DataStorage  *)
(* (src/data_storage.py).  The remote platform is the environment: it      *)
(* holds one channel's upload history and answers each call, or fails it.  *)
(*                                                                         *)
(* Python values: an Optional is a sequence, <<>> for None and <<x>> for   *)
(* x; a str is a sequence of one-character strings; a timestamp string is  *)
(* the sequence of its fields (see IsoZ).                                  *)
(***************************************************************************)
EXTENDS Integers, Sequences, FiniteSets, TLC

VARIABLES
    \* the platform (environment), fixed during a behaviour
    uploads,          \* the channel's upload history: video ids in listing order
    unavailable,      \* ids the statistics endpoint omits (deleted/private)
    now_micro,        \* microsecond field of datetime.utcnow()
    endless,          \* the listings never run out: every page is full and
                      \* carries a continuation cursor
    \* the arguments of the current scrape_channel call
    channel_id, batch_size, days_back, max_videos,
    passed,           \* the keyword arguments the caller passed itself
    \* YouTubeScraper fields
    quota_used, max_quota,
    \* the call frames of scrape_channel and its callees
    pc, channel_info, published_after, path, videos, next_page_token,
    page_count, page, stats_ids, stats_i, video_stats, ret, stop,
    \* the remote requests issued by the current scrape_channel call
    requests,
    \* the multi-channel drivers and DataStorage.memory_storage
    driver, channels, idx, all_scraped, memory_storage, result,
    outcomes,         \* what became of each channel of the run, in order
    \* the MongoDB collection db.videos behind DataStorage.mongodb
    mongo,            \* its documents, in insertion order
    unique_index      \* whether the unique index on video_id exists

platformVars == <<uploads, unavailable, now_micro, endless>>
argVars      == <<channel_id, batch_size, days_back, max_videos, passed>>
quotaVars    == <<quota_used, max_quota>>
walkVars     == <<published_after, path, videos, next_page_token, page_count, page>>
statsVars    == <<stats_ids, stats_i, video_stats>>
driverVars   == <<driver, channels, idx, all_scraped, memory_storage, result,
                 outcomes, mongo, unique_index>>
vars == <<platformVars, argVars, quotaVars, pc, channel_info, walkVars,
          statsVars, ret, stop, requests, driverVars>>

----------------------------------------------------------------------------
(* Bounds of the model *)

MaxItems == 3          \* longest upload history
MaxChannels == 2       \* longest channel list of a multi-channel run
MaxIds == 101          \* longest id list given to get_video_statistics
EndlessHeadroom == 8   \* budget left below 80% when an endless harvest starts
QuotaCap == 10010      \* no new call on a shared scraper from this usage on

(* Program constants *)

MaxQuota == 10000      \* self.max_quota
SearchCost == 100      \* search().list
ListCost == 1          \* channels().list, playlistItems().list, videos().list
ApiPageLimit == 50     \* min(batch_size, 50); chunks of 50 ids
SecondsPerDay == 86400 \* timedelta(days=1)
DefaultDaysBack == 365 \* scrape_channel(..., days_back=365, ...)
DefaultMaxVideos == 200 \* scrape_channel(..., max_videos=200)
SearchPageCap == 200   \* fetch_channel_videos_paginated: if page_count > 200
PlaylistPageCap == 500 \* fetch_all_videos_from_playlist: if page_count > 500

None == <<>>
Some(x) == <<x>>
Min(a, b) == IF a <= b THEN a ELSE b

\* Python truthiness of an Optional[int]: None and 0 are falsy.
Truthy(opt) == opt # None /\ opt[1] # 0

----------------------------------------------------------------------------
(* Time and timestamp strings *)

VideoIds == 1..3
NowSec == 3 * SecondsPerDay

\* The whole second at which video v was published: video 1 now, video 2
\* exactly one day ago, video 3 two days ago.
PublishedSec(v) == NowSec - (v - 1) * SecondsPerDay

\* A timestamp string "YYYY-MM-DDTHH:MM:SS[.ffffff]Z" as the sequence of its
\* fields: the fixed-width prefix (ordered as its number of seconds), then
\* the characters that follow, by code point: "." = 46 with the six
\* fraction digits as one fixed-width field, "Z" = 90.  datetime.isoformat
\* omits the fraction when microsecond = 0.
IsoZ(sec, micro) ==
    IF micro = 0 THEN <<sec, 90>> ELSE <<sec, 46, micro, 90>>

\* Python's str comparison a >= b: lexicographic, a proper prefix is smaller.
RECURSIVE StrGE(_, _)
StrGE(a, b) ==
    IF b = <<>> THEN TRUE
    ELSE IF a = <<>> THEN FALSE
    ELSE IF Head(a) # Head(b) THEN Head(a) > Head(b)
    ELSE StrGE(Tail(a), Tail(b))

\* The instant a timestamp string denotes: its whole second and its
\* microsecond; Earlier orders two timestamps as instants.
Micro(ts) == IF Len(ts) = 2 THEN 0 ELSE ts[3]
Earlier(a, b) == a[1] < b[1] \/ (a[1] = b[1] /\ Micro(a) < Micro(b))

\* published_after of get_channel_videos
PublishedAfter(days, micro) ==
    IF Truthy(days) /\ days[1] > 0
    THEN IsoZ(NowSec - days[1] * SecondsPerDay, micro)
    ELSE None

----------------------------------------------------------------------------
(* The platform *)

\* A listing item of video v.
Item(v) == [videoId |-> v, publishedAt |-> IsoZ(PublishedSec(v), 0)]

ItemsOf(ids) == [i \in 1..Len(ids) |-> Item(ids[i])]

\* One page of a listing: at most maxResults items from the cursor on, and
\* a continuation cursor exactly when items remain.
PageOf(items, token, maxResults) ==
    LET start == IF token = None THEN 1 ELSE token[1]
        last  == Min(start + maxResults - 1, Len(items))
    IN  [items |-> SubSeq(items, start, last),
         token |-> IF last < Len(items) THEN Some(last + 1) ELSE None]

\* One page of a listing that never runs out: maxResults items, here the
\* newest video each time, and always a continuation cursor.
EndlessPage(token, maxResults) ==
    LET start == IF token = None THEN 1 ELSE token[1]
    IN  [items |-> [i \in 1..maxResults |-> Item(1)],
         token |-> Some(start + maxResults)]

\* The ids of a set in ascending order: newest first, as PublishedSec falls
\* with the id.
RECURSIVE NewestFirst(_)
NewestFirst(S) ==
    IF S = {} THEN <<>>
    ELSE LET v == CHOOSE x \in S : \A y \in S : x <= y
         IN  <<v>> \o NewestFirst(S \ {v})

Range(seq) == {seq[i] : i \in 1..Len(seq)}

\* search().list(order='date'): each video of the channel once, newest
\* first, filtered on the server to those published at or after the floor.
SearchListing(ids, floor) ==
    LET all == ItemsOf(NewestFirst(Range(ids)))
    IN  IF floor = None THEN all
        ELSE SelectSeq(all, LAMBDA it : ~Earlier(it.publishedAt, floor))

\* The statistics the platform holds for video v.
PlatformStats(v) ==
    [view_count |-> 1000 + v, like_count |-> 100 + v,
     comment_count |-> 10 + v, duration |-> "PT1M"]

\* The channel the platform knows: a 24-character id starting with "UC".
RealId == [i \in 1..24 |-> IF i = 1 THEN "U" ELSE IF i = 2 THEN "C" ELSE "a"]
ChannelTitle == "T-Series"

----------------------------------------------------------------------------
(* YouTubeScraper: the pure parts *)

\* self.quota_used += cost
ChargeMutAssign(q, cost) == cost
Charge(q, cost) == q + cost

\* if max_videos and len(videos) >= max_videos: break
CeilingReached(maxv, n) == Truthy(maxv) /\ n >= maxv[1]

\* current_batch_size
CurrentBatchSizeMutNoRemaining(batch, maxv, n) == Min(batch, ApiPageLimit)
CurrentBatchSize(batch, maxv, n) ==
    LET cur == Min(batch, ApiPageLimit)
    IN  IF Truthy(maxv) THEN Min(cur, maxv[1] - n) ELSE cur

\* the client-side date filter of get_videos_from_playlist
FilterByDate(items, floor) ==
    IF floor # None
    THEN SelectSeq(items, LAMBDA it : StrGE(it.publishedAt, floor))
    ELSE items

\* if self.quota_used > self.max_quota * 0.8
QuotaExceededMutNever(q, m) == FALSE
QuotaExceededMutFull(q, m) == q > m
QuotaExceeded(q, m) == q * 10 > m * 8

\* one merged record: the listing fields and the statistics, or the defaults
MergedMutDuration(it, stats) ==
    [video_id |-> it.videoId, published_at |-> it.publishedAt] @@
    (IF it.videoId \in DOMAIN stats THEN stats[it.videoId]
     ELSE [view_count |-> 0, like_count |-> 0, comment_count |-> 0,
           duration |-> "PT0S"])
Merged(it, stats) ==
    [video_id |-> it.videoId, published_at |-> it.publishedAt] @@
    (IF it.videoId \in DOMAIN stats THEN stats[it.videoId]
     ELSE [view_count |-> 0, like_count |-> 0, comment_count |-> 0,
           duration |-> "Unknown"])

MergeAllMutSkipMissing(items, stats) ==
    LET have == SelectSeq(items, LAMBDA it : it.videoId \in DOMAIN stats)
    IN  [i \in 1..Len(have) |-> Merged(have[i], stats)]
\* batch_videos: one merged record per item of the page, in order
MergeAll(items, stats) == [i \in 1..Len(items) |-> Merged(items[i], stats)]

\* video_stats[video_id] = {...} for every item of the response
UpdateStats(old, ids) ==
    IF DOMAIN old \cup ids = {} THEN <<>>
    ELSE [v \in DOMAIN old \cup ids |->
            IF v \in ids THEN PlatformStats(v) ELSE old[v]]

\* video['channel_name'] = channel_info['channel_name']
Attach(vids, info) ==
    [i \in 1..Len(vids) |-> vids[i] @@ [channel_name |-> info[1]]]

Request(api, token, maxResults, after, ok) ==
    [api |-> api, token |-> token, maxResults |-> maxResults,
     publishedAfter |-> after, ok |-> ok, before |-> quota_used]

NoPage == [items |-> <<>>, token |-> None]

----------------------------------------------------------------------------
(* Inputs *)

\* Upload histories: every sequence of at most MaxItems video ids, a video
\* possibly listed twice.
Histories == UNION {[1..n -> VideoIds] : n \in 0..MaxItems}

\* (days_back, microsecond of now)
FloorChoices == {<<None, 0>>, <<Some(0), 0>>, <<Some(1), 0>>, <<Some(1), 500000>>}
BatchSizes == {1, 2, 60}
MaxVideoChoices == {None, Some(0), Some(1), Some(2)}

\* A 24-character id the platform does not know.
GoneId == [i \in 1..24 |-> IF i = 1 THEN "U" ELSE IF i = 2 THEN "C" ELSE "b"]

InitFrame ==
    /\ quota_used = 0
    /\ max_quota = MaxQuota
    /\ channel_info = None
    /\ published_after = None
    /\ path = "none"
    /\ videos = <<>>
    /\ next_page_token = None
    /\ page_count = 0
    /\ page = NoPage
    /\ stats_ids = <<>>
    /\ stats_i = 0
    /\ video_stats = <<>>
    /\ ret = <<>>
    /\ stop = "none"
    /\ requests = <<>>

InitNoDriver ==
    /\ driver = "none"
    /\ channels = <<>>
    /\ idx = 0
    /\ all_scraped = <<>>
    /\ memory_storage = <<>>
    /\ result = None
    /\ outcomes = <<>>
    /\ mongo = <<>>
    /\ unique_index = FALSE

\* The keyword arguments of scrape_channel that have a default.
Keywords == {"days_back", "max_videos"}

\* The value a parameter is bound to: the argument the caller passed, or
\* the default of the signature.
Param(kws, name, value, default) == IF name \in kws THEN value ELSE default

\* A fresh scraper, a platform, and the scrape_channel call to be made.
Init ==
    /\ uploads \in Histories
    /\ unavailable \in {{}, {2}}
    /\ endless = FALSE
    /\ passed \in SUBSET Keywords
    /\ \E f \in FloorChoices :
          /\ days_back = Param(passed, "days_back", f[1], Some(DefaultDaysBack))
          /\ now_micro = f[2]
    /\ channel_id \in {RealId, GoneId}
    /\ batch_size \in BatchSizes
    /\ \E m \in MaxVideoChoices :
          max_videos = Param(passed, "max_videos", m, Some(DefaultMaxVideos))
    /\ pc = "idle"
    /\ InitFrame
    /\ InitNoDriver

----------------------------------------------------------------------------
(* YouTubeScraper.scrape_channel and its callees, one action per remote call *)

\* get_channel_videos returns vids; scrape_channel attaches the channel
\* fields and returns.
Return(vids, reason) ==
    /\ ret' = Attach(vids, channel_info)
    /\ stop' = reason
    /\ pc' = "returned"

\* scrape_channel is called.
ScrapeChannel ==
    /\ pc = "idle"
    /\ pc' = "channel_info"
    /\ requests' = <<>>
    /\ ret' = <<>>
    /\ stop' = "none"
    /\ channel_info' = None
    /\ UNCHANGED <<platformVars, argVars, quotaVars, walkVars, statsVars, driverVars>>

\* What get_channel_info returns: the channel's fields when the call
\* succeeded and the response has an item, None otherwise.
ChannelInfoOfMutAlways(ok, cid) == Some(ChannelTitle)
ChannelInfoOf(ok, cid) ==
    IF ok /\ cid = RealId THEN Some(ChannelTitle) ELSE None

\* get_channel_info: channels().list(part='snippet,statistics'), and
\* scrape_channel's `if not channel_info: return []`
GetChannelInfo ==
    /\ pc = "channel_info"
    /\ \E ok \in BOOLEAN :
        LET info == ChannelInfoOf(ok, channel_id)
        IN  /\ requests' = Append(requests,
                   Request("channels", None, 0, None, ok)
                       @@ [part |-> "snippet,statistics"])
            /\ quota_used' = IF ok THEN Charge(quota_used, ListCost) ELSE quota_used
            /\ channel_info' = info
            /\ IF info # None
               THEN /\ pc' = "uploads_id"
                    /\ UNCHANGED <<ret, stop>>
               ELSE /\ ret' = <<>>
                    /\ stop' = "no_info"
                    /\ pc' = "returned"
    /\ UNCHANGED <<platformVars, argVars, max_quota, walkVars, statsVars, driverVars>>

\* What get_uploads_playlist_id returns: the id of the uploads playlist
\* when the call succeeded and the response has an item, None otherwise.
UploadsPlaylistId(ok, cid) ==
    IF ok /\ cid = RealId THEN Some("uploads") ELSE None

\* if uploads_playlist_id: the playlist walk, else the search fallback
UsePlaylistMutNever(pl) == FALSE
UsePlaylist(pl) == pl # None

\* get_channel_videos up to the choice of the listing source:
\* get_uploads_playlist_id, channels().list(part='contentDetails')
GetUploadsPlaylistId ==
    /\ pc = "uploads_id"
    /\ published_after' = PublishedAfter(days_back, now_micro)
    /\ videos' = <<>>
    /\ next_page_token' = None
    /\ page_count' = 0
    /\ page' = NoPage
    /\ \E ok \in BOOLEAN :
        LET uploads_playlist_id == UploadsPlaylistId(ok, channel_id)
        IN  /\ requests' = Append(requests,
                   Request("channels", None, 0, None, ok)
                       @@ [part |-> "contentDetails"])
            /\ quota_used' = IF ok THEN Charge(quota_used, ListCost) ELSE quota_used
            /\ path' = IF UsePlaylist(uploads_playlist_id) THEN "playlist" ELSE "search"
            /\ pc' = IF UsePlaylist(uploads_playlist_id) THEN "pl_loop" ELSE "se_loop"
    /\ UNCHANGED <<platformVars, argVars, max_quota, channel_info, statsVars,
                   ret, stop, driverVars>>

\* get_videos_from_playlist: the head of one loop iteration, up to the call
\* of get_video_statistics
PlaylistList ==
    /\ pc = "pl_loop"
    /\ IF CeilingReached(max_videos, Len(videos))
       THEN /\ Return(videos, "ceiling")
            /\ UNCHANGED <<quota_used, requests, walkVars, statsVars>>
       ELSE LET cur  == CurrentBatchSize(batch_size, max_videos, Len(videos))
                resp == IF endless THEN EndlessPage(next_page_token, cur)
                        ELSE PageOf(ItemsOf(uploads), next_page_token, cur)
                filtered == FilterByDate(resp.items, published_after)
            IN  \E ok \in BOOLEAN :
                /\ requests' = Append(requests,
                       Request("playlistItems", next_page_token, cur, None, ok))
                /\ IF ~ok
                   THEN \* except Exception: return []
                        /\ Return(<<>>, "error")
                        /\ videos' = <<>>
                        /\ UNCHANGED <<quota_used, published_after, path,
                                       next_page_token, page_count, page, statsVars>>
                   ELSE /\ quota_used' = Charge(quota_used, ListCost)
                        /\ IF resp.items = <<>>
                           THEN /\ Return(videos, "empty")
                                /\ UNCHANGED <<walkVars, statsVars>>
                           ELSE IF filtered = <<>>
                           THEN IF published_after # None
                                THEN /\ Return(videos, "date")
                                     /\ UNCHANGED <<walkVars, statsVars>>
                                ELSE \* continue
                                     UNCHANGED <<pc, ret, stop, walkVars, statsVars>>
                           ELSE /\ page' = [items |-> filtered, token |-> resp.token]
                                /\ stats_ids' = [i \in 1..Len(filtered) |-> filtered[i].videoId]
                                /\ stats_i' = 0
                                /\ video_stats' = <<>>
                                /\ pc' = "stats"
                                /\ UNCHANGED <<ret, stop, published_after, path, videos,
                                               next_page_token, page_count>>
    /\ UNCHANGED <<platformVars, argVars, max_quota, channel_info, driverVars>>

\* get_channel_videos, the search fallback: the head of one loop iteration
SearchList ==
    /\ pc = "se_loop"
    /\ IF CeilingReached(max_videos, Len(videos))
       THEN /\ Return(videos, "ceiling")
            /\ UNCHANGED <<quota_used, requests, walkVars, statsVars>>
       ELSE LET cur  == CurrentBatchSize(batch_size, max_videos, Len(videos))
                resp == IF endless THEN EndlessPage(next_page_token, cur)
                        ELSE PageOf(SearchListing(uploads, published_after),
                                    next_page_token, cur)
            IN  \E ok \in BOOLEAN :
                /\ requests' = Append(requests,
                       Request("search", next_page_token, cur, published_after, ok))
                /\ IF ~ok
                   THEN /\ Return(<<>>, "error")
                        /\ videos' = <<>>
                        /\ UNCHANGED <<quota_used, published_after, path,
                                       next_page_token, page_count, page, statsVars>>
                   ELSE /\ quota_used' = Charge(quota_used, SearchCost)
                        /\ IF resp.items = <<>>
                           THEN /\ Return(videos, "empty")
                                /\ UNCHANGED <<walkVars, statsVars>>
                           ELSE /\ page' = resp
                                /\ stats_ids' = [i \in 1..Len(resp.items) |-> resp.items[i].videoId]
                                /\ stats_i' = 0
                                /\ video_stats' = <<>>
                                /\ pc' = "stats"
                                /\ UNCHANGED <<ret, stop, published_after, path, videos,
                                               next_page_token, page_count>>
    /\ UNCHANGED <<platformVars, argVars, max_quota, channel_info, driverVars>>

\* chunk = video_ids[i:i+50], i counted from 0
ChunkMutOverlap(ids, i) == SubSeq(ids, i + 1, Min(i + ApiPageLimit + 1, Len(ids)))
Chunk(ids, i) == SubSeq(ids, i + 1, Min(i + ApiPageLimit, Len(ids)))

\* get_video_statistics: one chunk of at most 50 ids, videos().list
VideoStatsChunk ==
    /\ pc = "stats"
    /\ LET last  == Min(stats_i + ApiPageLimit, Len(stats_ids))
           chunk == Chunk(stats_ids, stats_i)
       IN  \E ok \in BOOLEAN :
           /\ requests' = Append(requests,
                  Request("videos", None, Len(chunk), None, ok) @@ [ids |-> chunk])
           /\ IF ~ok
              THEN \* except Exception: return {}
                   /\ video_stats' = <<>>
                   /\ pc' = "merge"
                   /\ UNCHANGED <<quota_used, stats_i>>
              ELSE /\ quota_used' = Charge(quota_used, ListCost)
                   /\ video_stats' = UpdateStats(video_stats, Range(chunk) \ unavailable)
                   /\ stats_i' = stats_i + ApiPageLimit
                   /\ pc' = IF last >= Len(stats_ids) THEN "merge" ELSE "stats"
    /\ UNCHANGED <<platformVars, argVars, max_quota, channel_info, walkVars,
                   stats_ids, ret, stop, driverVars>>

\* next_page_token = response.get('nextPageToken')
NextPageTokenMutFirst(resp) == IF resp.token = None THEN None ELSE Some(1)
NextPageToken(resp) == resp.token

\* the tail of one loop iteration: merge, extend, cursor and quota checks
MergeTail(loop) ==
    LET all == videos \o MergeAll(page.items, video_stats)
    IN  /\ videos' = all
        /\ page_count' = page_count + 1
        /\ next_page_token' = NextPageToken(page)
        /\ page' = NoPage
        /\ stats_ids' = <<>>
        /\ stats_i' = 0
        /\ video_stats' = <<>>
        /\ IF NextPageToken(page) = None
           THEN Return(all, "exhausted")
           ELSE IF QuotaExceeded(quota_used, max_quota)
           THEN Return(all, "quota")
           ELSE pc' = loop /\ UNCHANGED <<ret, stop>>
        /\ UNCHANGED <<platformVars, argVars, quotaVars, channel_info,
                       published_after, path, requests, driverVars>>

\* get_videos_from_playlist, after get_video_statistics returned
PlaylistMerge == pc = "merge" /\ path = "playlist" /\ MergeTail("pl_loop")

\* get_channel_videos (search), after get_video_statistics returned
SearchMerge == pc = "merge" /\ path = "search" /\ MergeTail("se_loop")

Next ==
    \/ ScrapeChannel
    \/ GetChannelInfo
    \/ GetUploadsPlaylistId
    \/ PlaylistList
    \/ SearchList
    \/ VideoStatsChunk
    \/ PlaylistMerge
    \/ SearchMerge

Spec == Init /\ [][Next]_vars

----------------------------------------------------------------------------
(* src/utils.py: extract_channel_id, on strings as character sequences *)

NonWordChars == {"/", ".", "@", " ", ":", "?", "="}
\* [\w-]
WordOrDash(c) == c \notin NonWordChars

ChannelUrl == <<"y","o","u","t","u","b","e",".","c","o","m","/","c","h","a","n","n","e","l","/">>
CustomUrl  == <<"y","o","u","t","u","b","e",".","c","o","m","/","c","/">>
UserUrl    == <<"y","o","u","t","u","b","e",".","c","o","m","/","u","s","e","r","/">>

\* str.strip() of blanks
RECURSIVE Strip(_)
Strip(s) ==
    IF s = <<>> THEN s
    ELSE IF Head(s) = " " THEN Strip(Tail(s))
    ELSE IF s[Len(s)] = " " THEN Strip(SubSeq(s, 1, Len(s) - 1))
    ELSE s

LitAt(s, i, lit) ==
    i + Len(lit) - 1 <= Len(s) /\ SubSeq(s, i, i + Len(lit) - 1) = lit

\* ([UC][\w-]{22}) matches at position k
GroupAt(s, k) ==
    /\ k >= 1 /\ k + 22 <= Len(s)
    /\ s[k] \in {"U", "C"}
    /\ \A j \in (k + 1)..(k + 22) : WordOrDash(s[j])

MinOf(S) == CHOOSE x \in S : \A y \in S : x <= y

\* re.search(r'youtube\.com/channel/([UC][\w-]{22})', s): the start of the
\* group of the leftmost match, or 0
SearchChannelUrl(s) ==
    LET hits == {i \in 1..Len(s) : LitAt(s, i, ChannelUrl) /\ GroupAt(s, i + Len(ChannelUrl))}
    IN  IF hits = {} THEN 0 ELSE MinOf(hits) + Len(ChannelUrl)

\* re.search(lit + r'[\w-]+.*?/([UC][\w-]{22})', s): the leftmost start, at
\* least one [\w-], then the first "/" that the group follows
SearchNamedUrl(s, lit) ==
    LET Groups(i) == {k \in (i + Len(lit) + 2)..Len(s) : s[k - 1] = "/" /\ GroupAt(s, k)}
        hits == {i \in 1..Len(s) :
                    /\ LitAt(s, i, lit)
                    /\ i + Len(lit) <= Len(s)
                    /\ WordOrDash(s[i + Len(lit)])
                    /\ Groups(i) # {}}
    IN  IF hits = {} THEN 0 ELSE MinOf(Groups(MinOf(hits)))

extract_channel_id(channel_input) ==
    IF channel_input = <<>> THEN None
    ELSE LET s  == Strip(channel_input)
             k1 == SearchChannelUrl(s)
             k2 == SearchNamedUrl(s, CustomUrl)
             k3 == SearchNamedUrl(s, UserUrl)
         IN  IF Len(s) = 24 /\ s[1] = "U" /\ s[2] = "C" THEN s
             ELSE IF k1 > 0 THEN SubSeq(s, k1, k1 + 22)
             ELSE IF k2 > 0 THEN SubSeq(s, k2, k2 + 22)
             ELSE IF k3 > 0 THEN SubSeq(s, k3, k3 + 22)
             ELSE None

\* Inputs of extract_channel_id: stable ids (24 characters, "UC" first),
\* bare or padded with blanks, the channel URLs built on them, URLs of the
\* custom and user forms, and a plain name.
StableIds ==
    {[i \in 1..24 |-> IF i = 1 THEN "U" ELSE IF i = 2 THEN "C"
                      ELSE IF i = 3 THEN c3 ELSE IF i = 24 THEN c24 ELSE "a"] :
        c3 \in {"a", "-"}, c24 \in {"a", "b", "_", "9"}}
Schemes  == {<<>>, <<"h","t","t","p","s",":","/","/">>, <<"w","w","w",".">>,
             <<"h","t","t","p","s",":","/","/","w","w","w",".">>}
Suffixes == {<<>>, <<"/">>, <<"/","v","i","d","e","o","s">>, <<"?","a","=","b">>}
Pads     == {<<>>, <<" ">>}

ChannelUrlInputs ==
    {pad \o sch \o ChannelUrl \o id \o suf \o pad :
        pad \in Pads, sch \in Schemes, id \in StableIds, suf \in Suffixes}
DirectInputs == {pad \o id \o pad : pad \in Pads, id \in StableIds}
NamedUrlInputs ==
    {lit \o <<"n">> \o mid \o <<"/">> \o id :
        lit \in {CustomUrl, UserUrl}, mid \in {<<>>, <<"/","x">>}, id \in StableIds}
ExtractInputs ==
    ChannelUrlInputs \cup DirectInputs \cup NamedUrlInputs
        \cup {<<>>, <<"t", "s">>, ChannelUrl}

\* One call channel_id = extract_channel_id(channel), as the UI driver makes
\* it for channels[idx].
InitExtract ==
    /\ uploads = <<>>
    /\ unavailable = {}
    /\ endless = FALSE
    /\ days_back = None
    /\ now_micro = 0
    /\ channel_id = None
    /\ batch_size = 1
    /\ max_videos = None
    /\ passed = {}
    /\ pc = "extract_idle"
    /\ InitFrame
    /\ driver = "ui"
    /\ channels \in {<<c>> : c \in ExtractInputs}
    /\ idx = 1
    /\ all_scraped = <<>>
    /\ memory_storage = <<>>
    /\ result = None
    /\ outcomes = <<>>
    /\ mongo = <<>>
    /\ unique_index = FALSE

ExtractChannelId ==
    /\ pc = "extract_idle"
    /\ channel_id' = extract_channel_id(channels[idx])
    /\ pc' = "extract_done"
    /\ UNCHANGED <<platformVars, batch_size, days_back, max_videos, passed,
                   quotaVars, channel_info, walkVars, statsVars, ret, stop,
                   requests, driverVars>>

NextExtract == ExtractChannelId

SpecExtract == InitExtract /\ [][NextExtract]_vars

----------------------------------------------------------------------------
(* The multi-channel drivers: scrape_channels of src/app.py ("ui") and of
   src/api.py ("api"), with DataStorage.memory_storage *)

\* Channel inputs: the channel's id, its name, and a name nobody has.
KnownName   == <<"t", "s">>
UnknownName == <<"z", "z">>
ChannelInputs == {RealId, KnownName, UnknownName}

ChannelLists == UNION {[1..n -> ChannelInputs] : n \in 1..MaxChannels}

\* The platform's channel search: the first match for query q, if any.  A
\* search for the id itself may or may not find the channel.
ChannelSearch(q) ==
    IF q = KnownName THEN {Some(RealId)}
    ELSE IF q = RealId THEN {Some(RealId), None}
    ELSE {None}

\* if channel_name.startswith('@'): channel_name = channel_name[1:]
Query(name) == IF name # <<>> /\ Head(name) = "@" THEN Tail(name) ELSE name

\* A fresh scraper and storage, a platform, and the multi-channel request.
InitDriver ==
    /\ uploads \in {<<>>, <<1, 2>>}
    /\ unavailable = {}
    /\ endless = FALSE
    /\ days_back = Some(0)
    /\ now_micro = 0
    /\ channel_id = None
    /\ batch_size = 2
    /\ max_videos = None
    /\ passed = Keywords
    /\ pc = "drv_idle"
    /\ InitFrame
    /\ driver \in {"ui", "api"}
    /\ channels \in ChannelLists
    /\ idx = 0
    /\ all_scraped = <<>>
    /\ memory_storage = <<>>
    /\ result = None
    /\ outcomes = <<>>
    /\ mongo = <<>>
    /\ unique_index \in BOOLEAN

\* scrape_channels is called.
ScrapeChannels ==
    /\ pc = "drv_idle"
    /\ idx' = 1
    /\ all_scraped' = <<>>
    /\ outcomes' = <<>>
    /\ pc' = "drv_loop"
    /\ UNCHANGED <<platformVars, argVars, quotaVars, channel_info, walkVars,
                   statsVars, ret, stop, requests, driver, channels,
                   memory_storage, result, mongo, unique_index>>

\* The driver calls scraper.scrape_channel(cid, ...).
CallScrapeChannel(cid) ==
    /\ channel_id' = cid
    /\ pc' = "channel_info"
    /\ requests' = <<>>
    /\ ret' = <<>>
    /\ stop' = "none"
    /\ channel_info' = None
    /\ published_after' = None
    /\ path' = "none"
    /\ videos' = <<>>
    /\ next_page_token' = None
    /\ page_count' = 0
    /\ UNCHANGED <<page, statsVars, batch_size, days_back, max_videos, passed>>

\* The index the loop goes on with after a channel that could not be found:
\* continue.
AfterUnresolvedMutBreak(i, n) == n + 1
AfterUnresolved(i, n) == i + 1

\* The value returned to the caller of the run.
RunResult(drv, all) ==
    IF drv = "ui" THEN [scraped_data |-> all]
    ELSE [scraped_videos |-> Len(all), videos |-> all]

\* The head of the loop over the channels, up to the first remote call; past
\* the last channel, the end of scrape_channels.
DriverLoop ==
    /\ pc = "drv_loop"
    /\ IF idx > Len(channels)
       THEN /\ result' = Some(RunResult(driver, all_scraped))
            /\ pc' = "drv_done"
            /\ UNCHANGED <<argVars, channel_info, walkVars, statsVars, ret,
                           stop, requests>>
       ELSE /\ UNCHANGED result
            /\ IF driver = "ui" /\ extract_channel_id(channels[idx]) # None
               THEN CallScrapeChannel(extract_channel_id(channels[idx]))
               ELSE /\ pc' = "resolve"
                    /\ UNCHANGED <<argVars, channel_info, walkVars, statsVars,
                                   ret, stop, requests>>
    /\ UNCHANGED <<platformVars, quotaVars, driver, channels, idx, all_scraped,
                   memory_storage, outcomes, mongo, unique_index>>

\* get_channel_id_from_name called by a driver, and what the driver does
\* with the answer.
DriverResolve ==
    /\ pc = "resolve"
    /\ \E ok \in BOOLEAN :
       \E found \in (IF ok THEN ChannelSearch(Query(channels[idx])) ELSE {None}) :
        /\ quota_used' = IF ok THEN Charge(quota_used, SearchCost) ELSE quota_used
        /\ IF driver = "api"
           THEN \* get_channel_id_from_name(channel) or channel
                /\ CallScrapeChannel(IF found # None THEN found[1] ELSE channels[idx])
                /\ UNCHANGED <<idx, outcomes>>
           ELSE IF found # None
           THEN /\ CallScrapeChannel(found[1])
                /\ UNCHANGED <<idx, outcomes>>
           ELSE \* Could not find channel: continue
                /\ idx' = AfterUnresolved(idx, Len(channels))
                /\ outcomes' = Append(outcomes,
                       [channel |-> idx, status |-> "unresolved", videos |-> <<>>])
                /\ pc' = "drv_loop"
                /\ UNCHANGED <<argVars, channel_info, walkVars, statsVars, ret,
                               stop, requests>>
    /\ UNCHANGED <<platformVars, max_quota, driver, channels, all_scraped,
                   memory_storage, result, mongo, unique_index>>

\* DataStorage.store_channel_data: self.memory_storage[channel_name] = ...
Store(ms, channel, data) ==
    [c \in DOMAIN ms \cup {channel} |-> IF c = channel THEN data ELSE ms[c]]

\* MongoDBStorage.store_videos_batch: the documents of one batch
Documents(channel, vids) ==
    [i \in 1..Len(vids) |-> [channel_name |-> channel] @@ vids[i]]

\* collection.insert_many(documents, ordered=False): every document is
\* inserted, except that the unique index, where it exists, rejects a
\* document whose video_id the collection already holds; the resulting
\* BulkWriteError is caught.
RECURSIVE InsertMany(_, _, _)
InsertMany(coll, docs, unique) ==
    IF docs = <<>> THEN coll
    ELSE LET d == Head(docs)
             dup == \E k \in 1..Len(coll) : coll[k].video_id = d.video_id
         IN  InsertMany(IF unique /\ dup THEN coll ELSE Append(coll, d),
                        Tail(docs), unique)

\* Whether the driver stores the harvest r: the UI driver's
\* `if channel_data:`; the API driver stores whatever came back.
StoresHarvestMutAlways(drv, r) == TRUE

StoresHarvest(drv, r) == drv = "api" \/ r # <<>>

\* scrape_channel returned to the driver: store, extend, next channel.
DriverStore ==
    /\ pc = "returned"
    /\ driver # "none"
    /\ outcomes' = Append(outcomes,
           [channel |-> idx,
            status |-> IF stop \in {"no_info", "error"} THEN "failed" ELSE "ok",
            videos |-> ret])
    /\ IF ~StoresHarvest(driver, ret)
       THEN \* No data found for channel
            UNCHANGED <<memory_storage, all_scraped, mongo>>
       ELSE /\ mongo' = InsertMany(mongo, Documents(channels[idx], ret), unique_index)
            /\ memory_storage' = Store(memory_storage, channels[idx], ret)
            /\ all_scraped' = all_scraped \o ret
    /\ idx' = idx + 1
    /\ pc' = "drv_loop"
    /\ UNCHANGED <<platformVars, argVars, quotaVars, channel_info, walkVars,
                   statsVars, ret, stop, requests, driver, channels, result,
                   unique_index>>

HarvestSteps ==
    \/ GetChannelInfo
    \/ GetUploadsPlaylistId
    \/ PlaylistList
    \/ SearchList
    \/ VideoStatsChunk
    \/ PlaylistMerge
    \/ SearchMerge

NextDriver ==
    \/ ScrapeChannels
    \/ DriverLoop
    \/ DriverResolve
    \/ DriverStore
    \/ HarvestSteps

SpecDriver == InitDriver /\ [][NextDriver]_vars

----------------------------------------------------------------------------
(* One scraper instance shared by successive calls: the module-level scraper
   of src/api.py, the session scraper of src/app.py *)

\* A fresh scraper and a two-video channel walked one item per page.
InitShared ==
    /\ uploads = <<1, 2>>
    /\ unavailable = {}
    /\ endless = FALSE
    /\ days_back = Some(0)
    /\ now_micro = 0
    /\ channel_id = RealId
    /\ batch_size = 1
    /\ max_videos = None
    /\ passed = Keywords
    /\ pc = "idle"
    /\ InitFrame
    /\ InitNoDriver

\* get_channel_id_from_name, called between two harvests: the search is
\* charged unless it raised.
GetChannelIdFromName ==
    /\ pc = "idle"
    /\ quota_used < QuotaCap
    /\ \E ok \in BOOLEAN :
          quota_used' = IF ok THEN Charge(quota_used, SearchCost) ELSE quota_used
    /\ UNCHANGED <<platformVars, argVars, max_quota, pc, channel_info, walkVars,
                   statsVars, ret, stop, requests, driverVars>>

\* The caller took the result; the scraper is ready for the next call.
NextCall ==
    /\ pc = "returned"
    /\ quota_used < QuotaCap
    /\ pc' = "idle"
    /\ requests' = <<>>
    /\ ret' = <<>>
    /\ stop' = "none"
    /\ channel_info' = None
    /\ published_after' = None
    /\ path' = "none"
    /\ videos' = <<>>
    /\ next_page_token' = None
    /\ page_count' = 0
    /\ UNCHANGED <<platformVars, argVars, quotaVars, page, statsVars, driverVars>>

NextShared == Next \/ GetChannelIdFromName \/ NextCall

SpecShared == InitShared /\ [][NextShared]_vars

----------------------------------------------------------------------------
(* YouTubeScraper.get_video_statistics called on its own, with id lists
   longer than one chunk *)

\* A fresh scraper and the list of ids to look up.
InitStats ==
    /\ uploads = <<>>
    /\ unavailable \in {{}, {2}}
    /\ endless = FALSE
    /\ now_micro = 0
    /\ channel_id = RealId
    /\ batch_size = 1
    /\ days_back = None
    /\ max_videos = None
    /\ passed = Keywords
    /\ quota_used = 0
    /\ max_quota = MaxQuota
    /\ pc = "stats_call"
    /\ channel_info = None
    /\ published_after = None
    /\ path = "direct"
    /\ videos = <<>>
    /\ next_page_token = None
    /\ page_count = 0
    /\ page = NoPage
    /\ \E n \in 0..MaxIds : stats_ids = [i \in 1..n |-> i]
    /\ stats_i = 0
    /\ video_stats = <<>>
    /\ ret = <<>>
    /\ stop = "none"
    /\ requests = <<>>
    /\ InitNoDriver

\* get_video_statistics(video_ids) is called: video_stats = {}, and the loop
\* over range(0, len(video_ids), 50) is entered, or skipped for an empty list.
GetVideoStatistics ==
    /\ pc = "stats_call"
    /\ stats_i' = 0
    /\ video_stats' = <<>>
    /\ requests' = <<>>
    /\ pc' = IF stats_ids = <<>> THEN "stats_done" ELSE "stats"
    /\ UNCHANGED <<platformVars, argVars, quotaVars, channel_info, walkVars,
                   stats_ids, ret, stop, driverVars>>

\* The caller receives the mapping get_video_statistics returned.
StatsReturn ==
    /\ pc = "merge"
    /\ path = "direct"
    /\ pc' = "stats_done"
    /\ UNCHANGED <<platformVars, argVars, quotaVars, channel_info, walkVars,
                   statsVars, ret, stop, requests, driverVars>>

NextStats ==
    \/ GetVideoStatistics
    \/ VideoStatsChunk
    \/ StatsReturn

SpecStats == InitStats /\ [][NextStats]_vars

----------------------------------------------------------------------------
(* A harvest against listings that never run out *)

\* 80% of the budget, in quota units.
BudgetThreshold == (MaxQuota * 8) \div 10

\* A scraper that earlier calls brought close to, or just past, 80% of its
\* budget, and an endless channel harvested without a ceiling.
InitEndless ==
    /\ uploads = <<1>>
    /\ unavailable = {}
    /\ endless = TRUE
    /\ \E f \in {<<None, 0>>, <<Some(1), 500000>>} :
          days_back = f[1] /\ now_micro = f[2]
    /\ channel_id = RealId
    /\ batch_size \in {1, 60}
    /\ max_videos = None
    /\ passed = Keywords
    /\ quota_used \in {BudgetThreshold - EndlessHeadroom, BudgetThreshold + 1}
    /\ max_quota = MaxQuota
    /\ pc = "idle"
    /\ channel_info = None
    /\ published_after = None
    /\ path = "none"
    /\ videos = <<>>
    /\ next_page_token = None
    /\ page_count = 0
    /\ page = NoPage
    /\ stats_ids = <<>>
    /\ stats_i = 0
    /\ video_stats = <<>>
    /\ ret = <<>>
    /\ stop = "none"
    /\ requests = <<>>
    /\ InitNoDriver

\* Each step of a harvest runs to its end: a remote call returns or raises.
SpecEndless == InitEndless /\ [][Next]_vars /\ WF_vars(Next)

----------------------------------------------------------------------------
(* src/scrape_streamlit.py: the paginated fetchers of the standalone fetcher,
   fetch_channel_videos_paginated ("fetch_search") and
   fetch_all_videos_from_playlist ("fetch_playlist").  Their locals are held
   in the variables of the same role: all_videos in videos,
   max_results_per_page in batch_size, the fetcher running in path, and the
   collection store_data_mongodb writes to in mongo. *)

\* One record of batch_videos, built from an item of the statistics response.
FetchedRecord(v, page_no, mode) ==
    [video_id |-> v, published_at |-> Item(v).publishedAt,
     batch_number |-> page_no, fetch_mode |-> mode] @@ PlatformStats(v)

\* batch_videos: a record per item of the statistics response
BatchVideos(ids, gone, page_no, mode) ==
    LET got == SelectSeq(ids, LAMBDA v : v \notin gone)
    IN  [i \in 1..Len(got) |-> FetchedRecord(got[i], page_no, mode)]

\* store_data_mongodb: the videos the collection does not hold yet are
\* inserted, the others skipped.
StoreNew(coll, docs) ==
    coll \o SelectSeq(docs, LAMBDA d :
                \A k \in 1..Len(coll) : coll[k].video_id # d.video_id)

\* if page_count > 200 / if page_count > 500: the safety break
PageCapOf(fetcher) ==
    IF fetcher = "fetch_search" THEN SearchPageCap ELSE PlaylistPageCap
PageCapPassed(fetcher, n) == n > PageCapOf(fetcher)

\* except Exception: return all_videos
OnExceptionMutEmpty(all) == <<>>
OnException(all) == all

\* A channel, endless or not, and the fetcher to be called on it.
InitFetch ==
    /\ uploads = <<1, 2, 3>>
    /\ unavailable \in {{}, {2}}
    /\ endless \in BOOLEAN
    /\ now_micro = 0
    /\ channel_id = RealId
    /\ batch_size \in {1, 2}
    /\ days_back = None
    /\ max_videos = None
    /\ passed = Keywords
    /\ quota_used = 0
    /\ max_quota = MaxQuota
    /\ pc = "fetch_idle"
    /\ channel_info = None
    /\ published_after = None
    /\ path \in {"fetch_search", "fetch_playlist"}
    /\ videos = <<>>
    /\ next_page_token = None
    /\ page_count = 0
    /\ page = NoPage
    /\ stats_ids = <<>>
    /\ stats_i = 0
    /\ video_stats = <<>>
    /\ ret = <<>>
    /\ stop = "none"
    /\ requests = <<>>
    /\ InitNoDriver

\* The fetcher is called: all_videos = [], next_page_token = None,
\* page_count = 0.
FetchCall ==
    /\ pc = "fetch_idle"
    /\ videos' = <<>>
    /\ next_page_token' = None
    /\ page_count' = 0
    /\ requests' = <<>>
    /\ pc' = "fetch_list"
    /\ UNCHANGED <<platformVars, argVars, quotaVars, channel_info,
                   published_after, path, page, statsVars, ret, stop, driverVars>>

\* The fetcher returns vids.
FetchReturn(vids, reason) ==
    /\ ret' = vids
    /\ stop' = reason
    /\ pc' = "fetch_done"

\* The head of one loop iteration: page_count += 1 and the listing request.
\* requests.get or raise_for_status may raise; the search fetcher also
\* breaks on a response body that carries 'error'.
FetchList ==
    /\ pc = "fetch_list"
    /\ page_count' = page_count + 1
    /\ LET resp == IF endless THEN EndlessPage(next_page_token, batch_size)
                   ELSE PageOf(IF path = "fetch_search"
                               THEN SearchListing(uploads, None)
                               ELSE ItemsOf(uploads),
                               next_page_token, batch_size)
           api  == IF path = "fetch_search" THEN "search" ELSE "playlistItems"
       IN  \E outcome \in {"ok", "raise", "error_body"} :
           /\ outcome = "error_body" => path = "fetch_search"
           /\ requests' = Append(requests,
                  Request(api, next_page_token, batch_size, None, outcome = "ok"))
           /\ IF outcome = "raise"
              THEN FetchReturn(OnException(videos), "error") /\ UNCHANGED page
              ELSE IF outcome = "error_body"
              THEN FetchReturn(videos, "api_error") /\ UNCHANGED page
              ELSE IF resp.items = <<>>
              THEN FetchReturn(videos, "empty") /\ UNCHANGED page
              ELSE /\ page' = resp
                   /\ pc' = "fetch_stats"
                   /\ UNCHANGED <<ret, stop>>
    /\ UNCHANGED <<platformVars, argVars, quotaVars, channel_info,
                   published_after, path, videos, next_page_token, statsVars,
                   driverVars>>

\* The rest of the iteration: the statistics request, batch_videos,
\* all_videos.extend, store_data_mongodb (playlist fetcher, with the MongoDB
\* server in reach), the cursor and the safety break.
FetchStats ==
    /\ pc = "fetch_stats"
    /\ LET ids == [i \in 1..Len(page.items) |-> page.items[i].videoId]
           batch == BatchVideos(ids, unavailable, page_count,
                                IF path = "fetch_search" THEN "channel_pagination"
                                ELSE "channel_playlist")
           all == videos \o batch
       IN  \E ok \in BOOLEAN :
           /\ requests' = Append(requests,
                  Request("videos", None, Len(ids), None, ok) @@ [ids |-> ids])
           /\ IF ~ok
              THEN /\ FetchReturn(OnException(videos), "error")
                   /\ UNCHANGED <<videos, next_page_token, mongo>>
              ELSE /\ videos' = all
                   /\ mongo' = IF path = "fetch_playlist"
                               THEN StoreNew(mongo, batch) ELSE mongo
                   /\ next_page_token' = NextPageToken(page)
                   /\ IF NextPageToken(page) = None
                      THEN FetchReturn(all, "exhausted")
                      ELSE IF PageCapPassed(path, page_count)
                      THEN FetchReturn(all, "cap")
                      ELSE pc' = "fetch_list" /\ UNCHANGED <<ret, stop>>
    /\ page' = NoPage
    /\ UNCHANGED <<platformVars, argVars, quotaVars, channel_info,
                   published_after, path, page_count, statsVars, driver,
                   channels, idx, all_scraped, memory_storage, result,
                   outcomes, unique_index>>

NextFetch ==
    \/ FetchCall
    \/ FetchList
    \/ FetchStats

SpecFetch == InitFetch /\ [][NextFetch]_vars

----------------------------------------------------------------------------
(* Properties of one channel harvest *)

Ids(vids) == [i \in 1..Len(vids) |-> vids[i].video_id]
CeilDiv(a, b) == (a + b - 1) \div b
IsListing(r) == r.api \in {"playlistItems", "search"}
ListingRequests == SelectSeq(requests, IsListing)

\* What the listing source of the current path holds, in listing order.
Listing ==
    IF path = "playlist" THEN uploads ELSE NewestFirst(Range(uploads))

\* The harvest returned through the page walker, with no listing call failed
\* and without the budget stop.
CleanReturn ==
    /\ pc = "returned"
    /\ channel_info # None
    /\ stop \in {"ceiling", "empty", "date", "exhausted"}

\* C1: for every non-negative max_videos, 0 included, a channel harvest
\* returns at most max_videos videos.
C1_AtMostMaxVideos ==
    (pc = "returned" /\ max_videos # None) => Len(ret) <= max_videos[1]

\* C2: every video_id occurs at most once in the output of a channel harvest.
C2_UniqueVideoIds ==
    pc = "returned" =>
        \A i, j \in 1..Len(ret) : ret[i].video_id = ret[j].video_id => i = j

\* C5: with days_back > 0 no returned video was published before the floor
\* now - days_back days, and every search request carries the floor as
\* publishedAfter.
C5_DateFloor ==
    (pc = "returned" /\ Truthy(days_back)) =>
        /\ \A i \in 1..Len(ret) :
              ~Earlier(ret[i].published_at,
                       IsoZ(NowSec - days_back[1] * SecondsPerDay, now_micro))
        /\ \A k \in 1..Len(requests) :
              requests[k].api = "search" =>
                  requests[k].publishedAfter =
                      IsoZ(NowSec - days_back[1] * SecondsPerDay, now_micro)

\* The merge step emits one record per listing item of the page, in order,
\* and a record whose id the statistics mapping lacks carries zero counts
\* and the given duration.
MergeEmitsDefaults(dur) ==
    pc = "merge" =>
        /\ Len(videos') = Len(videos) + Len(page.items)
        /\ \A k \in 1..Len(page.items) :
              LET r == videos'[Len(videos) + k]
              IN  /\ r.video_id = page.items[k].videoId
                  /\ page.items[k].videoId \notin DOMAIN video_stats =>
                        /\ r.view_count = 0
                        /\ r.like_count = 0
                        /\ r.comment_count = 0
                        /\ r.duration = dur

C9_WalksAllPages ==
    (CleanReturn /\ max_videos = None /\ published_after = None) =>
        LET n == Len(Listing)
            p == Min(batch_size, ApiPageLimit)
            L == ListingRequests
        IN  /\ Ids(ret) = Listing
            /\ Len(L) = IF n = 0 THEN 1 ELSE CeilDiv(n, p)
            /\ \A k \in 1..Len(L) :
                  /\ L[k].maxResults = p
                  /\ L[k].token = IF k = 1 THEN None ELSE Some((k - 1) * p + 1)
            /\ n > 0 => stop = "exhausted"

\* C9 witness: three items walked in two pages of two.
C9_Witness ==
    /\ CleanReturn /\ max_videos = None /\ published_after = None
    /\ batch_size = 2 /\ Len(uploads) = 3 /\ path = "playlist"
    /\ Len(ListingRequests) = 2 /\ Len(ret) = 3

\* C10: with max_videos = m >= 1 on a source of at least m items, no date
\* floor and ample budget, exactly the first m items are returned, request k
\* asks for min(p, m - (k-1)p) items, and no listing request follows the
\* m-th item.
C10_ExactCeiling ==
    (/\ CleanReturn /\ Truthy(max_videos) /\ published_after = None
     /\ Len(Listing) >= max_videos[1]) =>
        LET m == max_videos[1]
            p == Min(batch_size, ApiPageLimit)
            L == ListingRequests
        IN  /\ Ids(ret) = SubSeq(Listing, 1, m)
            /\ Len(L) = CeilDiv(m, p)
            /\ \A k \in 1..Len(L) : L[k].maxResults = Min(p, m - (k - 1) * p)

\* C10 witness: max_videos = 2 on three items returns two.
C10_Witness ==
    /\ CleanReturn /\ max_videos = Some(2) /\ published_after = None
    /\ Len(uploads) = 3 /\ Len(ret) = 2 /\ stop = "ceiling"

\* C11: however a channel harvest ends (ceiling, budget, empty page, or an
\* error raised by a listing call), it returns every merged video that the
\* pages before had accumulated, never an empty result in their place.
C11_PartialResultsKept ==
    [][(pc \in {"pl_loop", "se_loop", "merge"} /\ pc' = "returned") =>
          /\ Len(ret') >= Len(videos)
          /\ Ids(SubSeq(ret', 1, Len(videos))) = Ids(videos)]_vars


\* The caller asked for no date floor: days_back left unset, None or 0.
NoFloorAsked == "days_back" \notin passed \/ ~Truthy(days_back)

\* The caller asked for no ceiling: max_videos left unset or None.
NoCeilingAsked == "max_videos" \notin passed \/ max_videos = None

\* C14: a harvest with days_back 0 or unset has no date floor (none is
\* computed and no request carries publishedAfter), and a harvest with
\* max_videos unset has no ceiling in force and never stops on one.
C14_UnsetMeansUnlimited ==
    pc = "returned" =>
        /\ NoFloorAsked =>
              /\ published_after = None
              /\ \A k \in 1..Len(requests) : requests[k].publishedAfter = None
        /\ NoCeilingAsked =>
              /\ ~Truthy(max_videos)
              /\ stop # "ceiling"

\* The channel-info call and the upload-playlist lookup among the requests.
IsInfo(r) == r.api = "channels" /\ r.part = "snippet,statistics"
IsLookup(r) == r.api = "channels" /\ r.part = "contentDetails"

\* C19: channel info is requested once per harvest, as its first call; if
\* that call fails or finds no channel, the harvest returns the empty list
\* having issued no other call and charged at most the channel-info unit.
C19_NoInfoNoHarvest ==
    /\ Len(SelectSeq(requests, IsInfo)) <= 1
    /\ pc = "returned" => (Len(requests) >= 1 /\ IsInfo(requests[1]))
    /\ (/\ Len(requests) >= 1
        /\ (~requests[1].ok \/ channel_id # RealId)) =>
          /\ pc = "returned"
          /\ ret = <<>>
          /\ Len(requests) = 1
          /\ quota_used - requests[1].before \in {0, ListCost}

\* C19 witness: the platform answered the channel-info call with no
\* channel, for a harvest that asked for the channel's three uploads.
C19_Witness ==
    /\ pc = "returned" /\ stop = "no_info"
    /\ channel_id = GoneId /\ Len(uploads) = 3
    /\ Len(requests) = 1 /\ requests[1].ok
    /\ quota_used = ListCost

\* C20: the upload-playlist lookup precedes every listing call of a
\* harvest; the search listing is called only if the lookup yielded no
\* playlist id, and never once an id was obtained, whatever the playlist
\* walk did.
C20_PlaylistBeforeSearch ==
    \A k \in 1..Len(requests) :
        /\ IsListing(requests[k]) =>
              \E j \in 1..(k - 1) : IsLookup(requests[j])
        /\ requests[k].api = "search" =>
              \A j \in 1..(k - 1) :
                  IsLookup(requests[j]) =>
                      UploadsPlaylistId(requests[j].ok, channel_id) = None
        /\ requests[k].api = "playlistItems" =>
              \E j \in 1..(k - 1) :
                  /\ IsLookup(requests[j])
                  /\ UploadsPlaylistId(requests[j].ok, channel_id) # None

\* C20 witness: the lookup gave the playlist id, the playlist walk failed on
\* its second page, and the harvest ended empty without any search call.
C20_Witness ==
    /\ pc = "returned" /\ stop = "error" /\ path = "playlist"
    /\ Len(ListingRequests) = 2
    /\ \A k \in 1..Len(requests) : requests[k].api # "search"

\* The collection lists its items newest first.
DateDescending(ids) ==
    \A i, j \in 1..Len(ids) : i < j => PublishedSec(ids[i]) >= PublishedSec(ids[j])

\* C21: on the playlist path with a date floor, over a collection that is
\* not ordered newest first, the walk goes through all pages: every listed
\* item that passes the floor test is returned, on whatever page it lies.
C21_UnorderedWalkedThrough ==
    (/\ pc = "returned" /\ path = "playlist" /\ published_after # None
     /\ max_videos = None
     /\ stop \in {"empty", "date", "exhausted"}
     /\ ~DateDescending(uploads)) =>
        \A i \in 1..Len(uploads) :
            StrGE(Item(uploads[i]).publishedAt, published_after) =>
                uploads[i] \in Range(Ids(ret))

\* Two requests are the same remote call.
SameCall(r, q) ==
    /\ r.api = q.api
    /\ IF IsListing(r) THEN r.token = q.token
       ELSE IF r.api = "videos" THEN r.ids = q.ids
       ELSE r.part = q.part

\* The statistics lookups issued for the page that listing request k brought.
LookupsAfter(k) ==
    {j \in (k + 1)..Len(requests) :
        /\ requests[j].api = "videos"
        /\ \A i \in (k + 1)..j : ~IsListing(requests[i])}

\* C22: no remote call of a harvest is retried: no cursor serves two
\* listing requests, each page's statistics chunk is looked up at most
\* once, and a failed call is followed by no further call at all unless it
\* was a statistics lookup, which is then not re-issued.
C22_NoRetry ==
    /\ \A j, k \in 1..Len(requests) :
          (IsListing(requests[j]) /\ IsListing(requests[k]) /\ j < k) =>
              requests[j].token # requests[k].token
    /\ \A k \in 1..Len(requests) :
          IsListing(requests[k]) => Cardinality(LookupsAfter(k)) <= 1
    /\ \A k \in 1..(Len(requests) - 1) :
          ~requests[k].ok =>
              /\ ~SameCall(requests[k], requests[k + 1])
              /\ requests[k].api \in {"videos", "channels"}
    /\ Len(SelectSeq(requests, IsInfo)) <= 1
    /\ Len(SelectSeq(requests, IsLookup)) <= 1

\* C22 witness: a three-page walk in which the statistics lookup of the
\* second page failed and the third page was still listed once.
C22_Witness ==
    /\ pc = "returned" /\ stop = "exhausted"
    /\ Len(ListingRequests) = 3
    /\ \E k \in 1..Len(requests) : requests[k].api = "videos" /\ ~requests[k].ok

\* The record emitted for a listing item with no statistics.
DefaultRecord(it) ==
    [video_id |-> it.videoId, published_at |-> it.publishedAt,
     view_count |-> 0, like_count |-> 0, comment_count |-> 0,
     duration |-> "Unknown"]

\* get_video_statistics has just returned from a lookup that raised.
StatsLookupFailed ==
    /\ pc = "merge"
    /\ requests[Len(requests)].api = "videos"
    /\ ~requests[Len(requests)].ok

----------------------------------------------------------------------------
(* Properties of the quota counter *)

\* The budget stop condition as the specification states it: used >= 80%.
AtEightyPercent(q, m) == q * 10 >= m * 8

\* C3: quota_used never decreases, max_quota never changes, and the budget
\* stop condition, once true, stays true.
C3_QuotaMonotone ==
    [][/\ quota_used' >= quota_used
       /\ max_quota' = max_quota
       /\ AtEightyPercent(quota_used, max_quota) =>
              AtEightyPercent(quota_used', max_quota')
       /\ QuotaExceeded(quota_used, max_quota) =>
              QuotaExceeded(quota_used', max_quota')]_vars

\* C3 witness: a harvest that ran to its end past 80% of the budget.
C3_Witness ==
    /\ pc = "returned" /\ Len(ret) > 0
    /\ AtEightyPercent(quota_used, max_quota)

\* C4: the page loops stop exactly when used >= limit * 0.8: the walker is
\* never back at the head of its loop, a cursor in hand, with 80% or more
\* of the budget used, and a budget stop happens only from 80% on.
C4_StopsAtEightyPercent ==
    /\ (pc \in {"pl_loop", "se_loop"} /\ page_count > 0) =>
          ~AtEightyPercent(quota_used, max_quota)
    /\ (pc = "returned" /\ stop = "quota") =>
          AtEightyPercent(quota_used, max_quota)

\* What the caller of scrape_channel receives when the harvest of a channel
\* whose uploads are ids runs to the exhaustion of the listing, every call
\* succeeding.
ExhaustedHarvest(ids) ==
    Attach(MergeAll(ItemsOf(ids), UpdateStats(<<>>, Range(ids))),
           Some(ChannelTitle))

\* C12: what a harvest stopped by the budget check returns differs from
\* what a harvest ended by exhaustion returns: no channel exists whose
\* complete harvest is the very value the budget stop returned.
C12_BudgetStopDistinguishable ==
    (pc = "returned" /\ stop = "quota") => ret # ExhaustedHarvest(Ids(ret))

\* The remote calls the budget check guards: page listings and statistics.
IsGuarded(r) == r.api \in {"playlistItems", "search", "videos"}

\* C16: no listing call and no statistics call is issued once the budget
\* stop condition holds, the first page of a harvest included.
C16_NoCallPastBudget ==
    \A k \in 1..Len(requests) :
        IsGuarded(requests[k]) => ~QuotaExceeded(requests[k].before, max_quota)

\* What the requests issued so far cost on the platform's tariff.
CostOf(r) == IF r.api = "search" THEN SearchCost ELSE ListCost

RECURSIVE TotalCost(_)
TotalCost(reqs) ==
    IF reqs = <<>> THEN 0 ELSE CostOf(Head(reqs)) + TotalCost(Tail(reqs))

\* C23: on a scraper used for one harvest from its construction, quota_used
\* equals the cost of every remote call issued, failed calls included.
C23_ExactAccounting == quota_used = TotalCost(requests)

\* The number of pages a harvest may list: a page beyond the first is
\* listed only while the units charged so far leave quota_used at or below
\* 80% of max_quota, and every page charges at least one unit.
PagesBounded ==
    LET L == ListingRequests
    IN  Len(L) >= 2 => (L[1].before + (Len(L) - 1) * ListCost) * 10 <= max_quota * 8

\* C24: against a listing that returns a full page and a cursor forever,
\* with no ceiling, the number of page requests of a harvest is bounded by
\* the budget left below 80%, and the harvest terminates.
C24_EndlessHarvestEnds == [](PagesBounded) /\ <>(pc = "returned")

\* C24 witness: an endless listing walked for more than five pages and then
\* stopped by the budget check.
C24_Witness ==
    /\ endless /\ pc = "returned" /\ stop = "quota"
    /\ Len(ListingRequests) > 5

\* The harvest in hand started on a scraper already past 80% of its budget.
StartedPastBudget ==
    Len(requests) >= 1 /\ requests[1].before * 10 > max_quota * 8

\* C25: a harvest started on a shared scraper already past 80% of the
\* budget still issues its calls, lists at most one page and returns at most
\* min(batch_size, 50) videos; nothing holds quota_used at or below
\* max_quota: the next call is accepted whatever quota_used is.
C25_OnePagePastBudget ==
    /\ StartedPastBudget =>
          /\ Len(ListingRequests) <= 1
          /\ Len(videos) <= Min(batch_size, ApiPageLimit)
          /\ Len(ret) <= Min(batch_size, ApiPageLimit)
    /\ pc = "idle" => ENABLED ScrapeChannel

\* C25 witness: a harvest started past max_quota itself returned one video
\* of the two-video channel.
C25_Witness ==
    /\ pc = "returned" /\ stop = "quota" /\ Len(ret) = 1
    /\ requests[1].before > max_quota
    /\ quota_used > requests[1].before

----------------------------------------------------------------------------
(* Properties of a multi-channel run *)

RECURSIVE ConcatVideos(_)
ConcatVideos(outs) ==
    IF outs = <<>> THEN <<>> ELSE Head(outs).videos \o ConcatVideos(Tail(outs))

FailedChannels ==
    {outcomes[k].channel : k \in {j \in 1..Len(outcomes) : outcomes[j].status # "ok"}}

ReportedFailed(r) == IF "failed" \in DOMAIN r THEN r.failed ELSE {}

\* C8: the aggregate result reports the channels that failed, so that a
\* failed channel differs from one harvested with zero videos.
C8_FailuresReported ==
    pc = "drv_done" => ReportedFailed(result[1]) = FailedChannels

\* The harvests of the run so far that brought videos back.
NonEmptyHarvests == SelectSeq(outcomes, LAMBDA o : o.videos # <<>>)

\* C30: in the UI driver, finishing a channel that was not resolved or whose
\* harvest came back empty changes neither memory_storage nor the MongoDB
\* collection nor the aggregate; only a non-empty harvest is stored, under
\* its channel input; and at the end scraped_data is the concatenation, in
\* input order, of the non-empty harvests.
C30_EmptyHarvestStoresNothing ==
    /\ [][(driver = "ui" /\ Len(outcomes') > Len(outcomes)) =>
            LET o == outcomes'[Len(outcomes')]
            IN  IF o.videos = <<>>
                THEN /\ memory_storage' = memory_storage
                     /\ mongo' = mongo
                     /\ all_scraped' = all_scraped
                ELSE /\ DOMAIN memory_storage' =
                            DOMAIN memory_storage \cup {channels[o.channel]}
                     /\ memory_storage'[channels[o.channel]] = o.videos
                     /\ \A c \in DOMAIN memory_storage :
                            c # channels[o.channel] =>
                                memory_storage'[c] = memory_storage[c]
                     /\ all_scraped' = all_scraped \o o.videos]_vars
    /\ [](driver = "ui" =>
            /\ DOMAIN memory_storage =
                   {channels[NonEmptyHarvests[k].channel] :
                        k \in 1..Len(NonEmptyHarvests)}
            /\ pc = "drv_done" =>
                   result[1].scraped_data = ConcatVideos(NonEmptyHarvests))

\* C30 witness: a UI run over two different inputs has ended; the first
\* channel's harvest came back empty, the second's did not, and only the
\* second is in storage.
C30_Witness ==
    /\ driver = "ui" /\ pc = "drv_done"
    /\ Len(outcomes) = 2
    /\ channels[1] # channels[2]
    /\ outcomes[1].status # "unresolved" /\ outcomes[1].videos = <<>>
    /\ outcomes[2].videos # <<>>
    /\ DOMAIN memory_storage = {channels[2]}
    /\ result[1].scraped_data = outcomes[2].videos

----------------------------------------------------------------------------
(* Properties of the stored data *)

\* Every document written to MongoDB so far by the run, in writing order.
RECURSIVE WrittenDocs(_)
WrittenDocs(outs) ==
    IF outs = <<>> THEN <<>>
    ELSE Documents(channels[Head(outs).channel], Head(outs).videos)
            \o WrittenDocs(Tail(outs))

\* The document most recently written for video v.
LastWritten(v) ==
    LET W == WrittenDocs(outcomes)
        k == CHOOSE i \in 1..Len(W) :
                /\ W[i].video_id = v
                /\ \A j \in (i + 1)..Len(W) : W[j].video_id # v
    IN  W[k]

\* C13: storing is an upsert on video_id: whatever was written, the
\* collection holds exactly one document per written video_id, and it is
\* the one most recently written.
C13_StoreIsUpsert ==
    LET W == WrittenDocs(outcomes)
    IN  \A v \in {W[i].video_id : i \in 1..Len(W)} :
            LET held == SelectSeq(mongo, LAMBDA d : d.video_id = v)
            IN  Len(held) = 1 /\ held[1] = LastWritten(v)

\* The platform's stable-id shape: 24 characters starting with "UC".
IdShaped(s) == Len(s) = 24 /\ s[1] = "U" /\ s[2] = "C"

\* C15: no driver issues a name search for a channel input that already
\* has the stable-id shape; such an input is harvested under itself.
C15_NoSearchForIds ==
    /\ pc = "resolve" => ~IdShaped(channels[idx])
    /\ (pc = "channel_info" /\ IdShaped(channels[idx])) =>
          channel_id = channels[idx]

----------------------------------------------------------------------------
(* Properties of get_video_statistics *)

RECURSIVE ConcatIds(_)
ConcatIds(reqs) ==
    IF reqs = <<>> THEN <<>> ELSE Head(reqs).ids \o ConcatIds(Tail(reqs))

\* C17: when the lookup of chunk j >= 2 fails, the mapping returned is the
\* one built from chunks 1..j-1.
C17_KeepsEarlierChunks ==
    (pc = "stats_done" /\ Len(requests) >= 2 /\ ~requests[Len(requests)].ok) =>
        DOMAIN video_stats =
            Range(ConcatIds(SubSeq(requests, 1, Len(requests) - 1))) \ unavailable

\* C18: a fully successful get_video_statistics on n ids issues ceil(n/50)
\* lookups of at most 50 ids each, the chunks are the input cut in order,
\* and each lookup adds exactly one unit to quota_used.
C18_ChunksOfFifty ==
    (pc = "stats_done" /\ \A k \in 1..Len(requests) : requests[k].ok) =>
        /\ Len(requests) = CeilDiv(Len(stats_ids), ApiPageLimit)
        /\ \A k \in 1..Len(requests) :
              /\ requests[k].api = "videos"
              /\ Len(requests[k].ids) \in 1..ApiPageLimit
              /\ requests[k].before = k - 1
        /\ ConcatIds(requests) = stats_ids
        /\ quota_used = Len(requests)
        /\ DOMAIN video_stats = Range(stats_ids) \ unavailable

\* C18 witness: 101 ids looked up in three chunks.
C18_Witness ==
    /\ pc = "stats_done"
    /\ Len(stats_ids) = 101
    /\ Len(requests) = 3
    /\ \A k \in 1..3 : requests[k].ok
    /\ quota_used = 3

----------------------------------------------------------------------------
(* Properties of the standalone paginated fetchers *)

\* C27: neither fetcher requests more pages than its stated cap, 200 for
\* fetch_channel_videos_paginated and 500 for fetch_all_videos_from_playlist.
C27_PageCapRespected ==
    pc \in {"fetch_list", "fetch_stats", "fetch_done"} =>
        Len(ListingRequests) <= PageCapOf(path)

\* C28: when a fetcher ends, whatever the reason, it returns at least the
\* videos accumulated before: an exception on page k loses nothing of
\* pages 1..k-1.
C28_FetcherKeepsPages ==
    [][(pc \in {"fetch_list", "fetch_stats"} /\ pc' = "fetch_done") =>
          /\ Len(ret') >= Len(videos)
          /\ SubSeq(ret', 1, Len(videos)) = videos]_vars

\* C28 witness: the statistics request of the third page raised and the
\* fetcher returned the videos of the first two pages.
C28_Witness ==
    /\ pc = "fetch_done" /\ stop = "error"
    /\ Len(ListingRequests) = 3
    /\ requests[Len(requests)].api = "videos"
    /\ Len(ret) = 2 * batch_size

----------------------------------------------------------------------------
(* Properties of extract_channel_id *)

\* C29: given a channel URL youtube.com/channel/<id> with <id> a stable id
\* (24 characters, "UC" first), extract_channel_id returns exactly <id>,
\* which is also what it returns for <id> itself.
C29_UrlYieldsTheId ==
    \A pad \in Pads, sch \in Schemes, id \in StableIds, suf \in Suffixes :
        (/\ pc = "extract_done"
         /\ channels[idx] = pad \o sch \o ChannelUrl \o id \o suf \o pad)
            => /\ channel_id = id
               /\ channel_id = extract_channel_id(id)

====
